---------------------------- MODULE Spec2Model ----------------------------
(***************************************************************************)
(* A model of src/server/src/python/process_csv.py, the CSV import         *)
(* processor of the SmartSpend finance tracker.                            *)
(*                                                                         *)
(* Python strings are sequences of one-character strings, so that          *)
(* lower(), replace(), `in`, re.sub, strptime and strftime are computed    *)
(* character by character.  Python floats are records: a finite value      *)
(* (an integer here: the cell alphabet has no '.', 'e' or '_'), an         *)
(* infinity, or NaN, with IEEE comparisons (every comparison with NaN is   *)
(* false).                                                                 *)
(***************************************************************************)
EXTENDS Integers, Sequences, FiniteSets, TLC

VARIABLES
    argv,          \* sys.argv
    file,          \* what pd.read_csv finds at the path
    pc,            \* position of the script
    df_columns,    \* df.columns after line 95
    roles,         \* date_col, desc_col, amount_col (lines 98-100)
    idx,           \* rows yielded by df.iterrows() so far
    row,           \* the loop variable row (cells in column order)
    amount,        \* the local amount of the loop body
    transactions,  \* the local list transactions
    result,        \* the value process_csv returned
    stdout,        \* the values printed, in order
    exit_status,   \* the process's exit status (-1 while it runs)
    calls,         \* how many times process_csv was entered
    fn,            \* the function a pure-function specification applies
    arg,           \* its argument
    step,          \* its position (format index, cleaning stage)
    acc,           \* its working value (cleaned)
    ret            \* its return value

vars == <<argv, file, pc, df_columns, roles, idx, row, amount, transactions,
          result, stdout, exit_status, calls, fn, arg, step, acc, ret>>

pipeVars == <<argv, file, pc, df_columns, roles, idx, row, amount,
              transactions, result, stdout, exit_status, calls>>

fnVars == <<fn, arg, step, acc, ret>>

-----------------------------------------------------------------------------
(* Characters and strings *)

Digits == <<"0","1","2","3","4","5","6","7","8","9">>

UpperCase == <<"A","B","C","D","E","F","G","H","I","J","K","L","M",
               "N","O","P","Q","R","S","T","U","V","W","X","Y","Z">>

LowerCase == <<"a","b","c","d","e","f","g","h","i","j","k","l","m",
               "n","o","p","q","r","s","t","u","v","w","x","y","z">>

IsDigit(c) == \E i \in DOMAIN Digits : Digits[i] = c

DigitVal(c) == (CHOOSE i \in DOMAIN Digits : Digits[i] = c) - 1

AllDigits(s) == \A i \in DOMAIN s : IsDigit(s[i])

\* str.lower() on one character
Lower(c) ==
    IF \E i \in DOMAIN UpperCase : UpperCase[i] = c
    THEN LowerCase[CHOOSE i \in DOMAIN UpperCase : UpperCase[i] = c]
    ELSE c

\* str.upper() on one character
Upper(c) ==
    IF \E i \in DOMAIN LowerCase : LowerCase[i] = c
    THEN UpperCase[CHOOSE i \in DOMAIN LowerCase : LowerCase[i] = c]
    ELSE c

StrLower(s) == [i \in DOMAIN s |-> Lower(s[i])]

\* s.replace(a, b) for single characters a, b
ReplaceChar(s, a, b) == [i \in DOMAIN s |-> IF s[i] = a THEN b ELSE s[i]]

\* s.replace(a, '') for a single character a
RemoveChar(s, a) == SelectSeq(s, LAMBDA c : c # a)

IsPrefix(p, s) == Len(p) <= Len(s) /\ SubSeq(s, 1, Len(p)) = p

\* Python's `k in s` on strings
Contains(s, k) ==
    \E i \in 0..(Len(s) - Len(k)) : SubSeq(s, i + 1, i + Len(k)) = k

\* the fields of s between occurrences of the character sep
RECURSIVE Split(_, _)
Split(s, sep) ==
    IF \A i \in DOMAIN s : s[i] # sep
    THEN <<s>>
    ELSE LET i == CHOOSE k \in DOMAIN s :
                     s[k] = sep /\ \A j \in 1..(k - 1) : s[j] # sep
         IN  <<SubSeq(s, 1, i - 1)>> \o Split(SubSeq(s, i + 1, Len(s)), sep)

\* the value of a string of decimal digits
RECURSIVE DecVal(_)
DecVal(s) ==
    IF s = << >> THEN 0
    ELSE 10 * DecVal(SubSeq(s, 1, Len(s) - 1)) + DigitVal(s[Len(s)])

\* the decimal digits of a natural number, without padding
RECURSIVE NatStr(_)
NatStr(n) ==
    IF n < 10 THEN <<Digits[n + 1]>>
    ELSE NatStr(n \div 10) \o <<Digits[(n % 10) + 1]>>

\* a number below 100 as two digits (%m, %d, %y of strftime)
Pad2(n) == IF n < 10 THEN <<"0">> \o NatStr(n) ELSE NatStr(n)

-----------------------------------------------------------------------------
(* Floats *)

NaN == [k |-> "nan", v |-> 0]

Num(n) == [k |-> "num", v |-> n]

\* sign is 1 or -1
Inf(sign) == [k |-> "inf", v |-> sign]

\* unary minus
FNeg(x) == IF x.k = "nan" THEN x ELSE [x EXCEPT !.v = 0 - x.v]

\* abs(x)
FAbs(x) == IF x.k = "nan" THEN x ELSE [x EXCEPT !.v = IF x.v < 0 THEN 0 - x.v ELSE x.v]

\* x < 0
FLt0(x) == x.k # "nan" /\ x.v < 0

\* x > 0
FGt0(x) == x.k # "nan" /\ x.v > 0

\* x >= 0
FGe0(x) == x.k # "nan" /\ x.v >= 0

\* x == y
FEq(x, y) == x.k # "nan" /\ y.k # "nan" /\ x = y

\* float(s): a ValueError is ok = FALSE
ParseFloat(s) ==
    LET signed == s # << >> /\ s[1] \in {"-", "+"}
        sign   == IF s # << >> /\ s[1] = "-" THEN 0 - 1 ELSE 1
        body   == IF signed THEN Tail(s) ELSE s
        low    == StrLower(body)
    IN  IF body # << >> /\ AllDigits(body)
        THEN [ok |-> TRUE, val |-> Num(sign * DecVal(body))]
        ELSE IF low = <<"n","a","n">>
        THEN [ok |-> TRUE, val |-> NaN]
        ELSE IF low \in {<<"i","n","f">>, <<"i","n","f","i","n","i","t","y">>}
        THEN [ok |-> TRUE, val |-> Inf(sign)]
        ELSE [ok |-> FALSE, val |-> NaN]

\* .replace('$', '').replace(',', '')
CleanNumber(s) == RemoveChar(RemoveChar(s, "$"), ",")

-----------------------------------------------------------------------------
(* categorize_transaction *)

\* the dict of line 30, in insertion order
categories_swapped ==
    << [name |-> "groceries", keywords |-> <<<<"g","r","o","c","e","r","y">>, <<"m","a","r","k","e","t">>, <<"f","o","o","d">>, <<"s","u","p","e","r","m","a","r","k","e","t">>, <<"t","r","a","d","e","r">>, <<"w","h","o","l","e"," ","f","o","o","d","s">>>>],
       [name |-> "transportation", keywords |-> <<<<"u","b","e","r">>, <<"l","y","f","t">>, <<"t","a","x","i">>, <<"t","r","a","n","s","p","o","r","t">>, <<"t","r","a","n","s","i","t">>, <<"t","r","a","i","n">>, <<"m","e","t","r","o">>>>],
       [name |-> "dining", keywords |-> <<<<"r","e","s","t","a","u","r","a","n","t">>, <<"c","a","f","e">>, <<"c","o","f","f","e","e">>, <<"s","t","a","r","b","u","c","k","s">>, <<"m","c","d","o","n","a","l","d","s">>, <<"t","a","k","e","o","u","t">>>>],
       [name |-> "utilities", keywords |-> <<<<"e","l","e","c","t","r","i","c">>, <<"w","a","t","e","r">>, <<"g","a","s">>, <<"i","n","t","e","r","n","e","t">>, <<"p","h","o","n","e">>, <<"b","i","l","l">>>>],
       [name |-> "entertainment", keywords |-> <<<<"n","e","t","f","l","i","x">>, <<"s","p","o","t","i","f","y">>, <<"m","o","v","i","e">>, <<"t","h","e","a","t","e","r">>, <<"h","u","l","u">>, <<"d","i","s","n","e","y">>>>],
       [name |-> "shopping", keywords |-> <<<<"a","m","a","z","o","n">>, <<"s","t","o","r","e">>, <<"s","h","o","p">>, <<"t","a","r","g","e","t">>, <<"w","a","l","m","a","r","t">>, <<"p","u","r","c","h","a","s","e">>>>],
       [name |-> "housing", keywords |-> <<<<"r","e","n","t">>, <<"m","o","r","t","g","a","g","e">>, <<"h","o","m","e">>, <<"h","o","a">>, <<"p","r","o","p","e","r","t","y">>>>],
       [name |-> "income", keywords |-> << >>] >>

categories ==
    << [name |-> "groceries", keywords |-> <<<<"g","r","o","c","e","r","y">>, <<"m","a","r","k","e","t">>, <<"f","o","o","d">>, <<"s","u","p","e","r","m","a","r","k","e","t">>, <<"t","r","a","d","e","r">>, <<"w","h","o","l","e"," ","f","o","o","d","s">>>>],
       [name |-> "dining", keywords |-> <<<<"r","e","s","t","a","u","r","a","n","t">>, <<"c","a","f","e">>, <<"c","o","f","f","e","e">>, <<"s","t","a","r","b","u","c","k","s">>, <<"m","c","d","o","n","a","l","d","s">>, <<"t","a","k","e","o","u","t">>>>],
       [name |-> "transportation", keywords |-> <<<<"u","b","e","r">>, <<"l","y","f","t">>, <<"t","a","x","i">>, <<"t","r","a","n","s","p","o","r","t">>, <<"t","r","a","n","s","i","t">>, <<"t","r","a","i","n">>, <<"m","e","t","r","o">>>>],
       [name |-> "utilities", keywords |-> <<<<"e","l","e","c","t","r","i","c">>, <<"w","a","t","e","r">>, <<"g","a","s">>, <<"i","n","t","e","r","n","e","t">>, <<"p","h","o","n","e">>, <<"b","i","l","l">>>>],
       [name |-> "entertainment", keywords |-> <<<<"n","e","t","f","l","i","x">>, <<"s","p","o","t","i","f","y">>, <<"m","o","v","i","e">>, <<"t","h","e","a","t","e","r">>, <<"h","u","l","u">>, <<"d","i","s","n","e","y">>>>],
       [name |-> "shopping", keywords |-> <<<<"a","m","a","z","o","n">>, <<"s","t","o","r","e">>, <<"s","h","o","p">>, <<"t","a","r","g","e","t">>, <<"w","a","l","m","a","r","t">>, <<"p","u","r","c","h","a","s","e">>>>],
       [name |-> "housing", keywords |-> <<<<"r","e","n","t">>, <<"m","o","r","t","g","a","g","e">>, <<"h","o","m","e">>, <<"h","o","a">>, <<"p","r","o","p","e","r","t","y">>>>],
       [name |-> "income", keywords |-> << >>] >>

\* line 42 with >= for >
IsIncome_nonneg(a) == FGe0(a)

\* line 42: amount > 0
IsIncome(a) == FGt0(a)

\* the inner loop of lines 47-49: some keyword of the category is in description
KeywordHit(description, keywords) ==
    \E j \in DOMAIN keywords : Contains(description, keywords[j])

\* the loops of lines 46-52 from category i on
RECURSIVE ScanCategories(_, _)
ScanCategories(description, i) ==
    IF i > Len(categories) THEN "uncategorized"
    ELSE IF KeywordHit(description, categories[i].keywords)
    THEN categories[i].name
    ELSE ScanCategories(description, i + 1)

categorize_transaction(description, a) ==
    LET lowered == StrLower(description)
    IN  IF IsIncome(a) THEN "income" ELSE ScanCategories(lowered, 1)

-----------------------------------------------------------------------------
(* normalize_date *)

\* the formats of lines 66-67: three directives and the separator between them
Fmt_mdY_slash == [dirs |-> <<"m", "d", "Y">>, sep |-> "/"]
Fmt_Ymd_dash  == [dirs |-> <<"Y", "m", "d">>, sep |-> "-"]
Fmt_dmY_slash == [dirs |-> <<"d", "m", "Y">>, sep |-> "/"]
Fmt_mdY_dash  == [dirs |-> <<"m", "d", "Y">>, sep |-> "-"]
Fmt_dmY_dash  == [dirs |-> <<"d", "m", "Y">>, sep |-> "-"]
Fmt_mdy_slash == [dirs |-> <<"m", "d", "y">>, sep |-> "/"]
Fmt_dmy_slash == [dirs |-> <<"d", "m", "y">>, sep |-> "/"]
Fmt_Ymd_slash == [dirs |-> <<"Y", "m", "d">>, sep |-> "/"]

\* the list with every day-first format ahead of its month-first twin
date_formats_dayfirst ==
    << Fmt_dmY_slash, Fmt_Ymd_dash, Fmt_mdY_slash, Fmt_dmY_dash,
       Fmt_mdY_dash, Fmt_dmy_slash, Fmt_mdy_slash, Fmt_Ymd_slash >>

date_formats ==
    << Fmt_mdY_slash, Fmt_Ymd_dash, Fmt_dmY_slash, Fmt_mdY_dash,
       Fmt_dmY_dash, Fmt_mdy_slash, Fmt_dmy_slash, Fmt_Ymd_slash >>

IsLeap(y) == y % 4 = 0 /\ (y % 100 # 0 \/ y % 400 = 0)

DaysInMonth(y, m) ==
    IF m = 2 THEN (IF IsLeap(y) THEN 29 ELSE 28)
    ELSE IF m \in {4, 6, 9, 11} THEN 30 ELSE 31

\* datetime(y, m, d) does not raise
ValidDate(y, m, d) ==
    /\ y >= 1 /\ y <= 9999
    /\ m >= 1 /\ m <= 12
    /\ d >= 1 /\ d <= DaysInMonth(y, m)

\* the value strptime reads from a field under a directive, -1 when the
\* directive's pattern does not cover the whole field:
\*   %m 1[0-2]|0[1-9]|[1-9]     %d 3[01]|[12]\d|0[1-9]|[1-9]| [1-9]
\*   %Y \d\d\d\d                %y \d\d (00-68 -> 2000-2068, 69-99 -> 1969-1999)
FieldValue(dir, f) ==
    IF dir = "m"
    THEN IF Len(f) \in {1, 2} /\ AllDigits(f) /\ DecVal(f) >= 1 /\ DecVal(f) <= 12
         THEN DecVal(f) ELSE 0 - 1
    ELSE IF dir = "d"
    THEN IF Len(f) \in {1, 2} /\ AllDigits(f) /\ DecVal(f) >= 1 /\ DecVal(f) <= 31
         THEN DecVal(f)
         ELSE IF Len(f) = 2 /\ f[1] = " " /\ IsDigit(f[2]) /\ f[2] # "0"
         THEN DigitVal(f[2]) ELSE 0 - 1
    ELSE IF dir = "Y"
    THEN IF Len(f) = 4 /\ AllDigits(f) THEN DecVal(f) ELSE 0 - 1
    ELSE IF Len(f) = 2 /\ AllDigits(f)
         THEN (IF DecVal(f) <= 68 THEN 2000 + DecVal(f) ELSE 1900 + DecVal(f))
         ELSE 0 - 1

\* the position in fmt.dirs of the directive that gives the year, month or day
DirIndex(fmt, kinds) == CHOOSE i \in 1..3 : fmt.dirs[i] \in kinds

\* datetime.strptime(s, fmt): a ValueError is ok = FALSE
Strptime(s, fmt) ==
    LET fields == Split(s, fmt.sep)
        bad    == [ok |-> FALSE, y |-> 0, m |-> 0, d |-> 0]
    IN  IF Len(fields) # 3 THEN bad
        ELSE LET y == FieldValue(fmt.dirs[DirIndex(fmt, {"Y", "y"})],
                                 fields[DirIndex(fmt, {"Y", "y"})])
                 m == FieldValue("m", fields[DirIndex(fmt, {"m"})])
                 d == FieldValue("d", fields[DirIndex(fmt, {"d"})])
             IN  IF y < 0 \/ m < 0 \/ d < 0 \/ ~ValidDate(y, m, d) THEN bad
                 ELSE [ok |-> TRUE, y |-> y, m |-> m, d |-> d]

\* strftime with day and month exchanged
Strftime_daymonth(y, m, d) ==
    NatStr(y) \o <<"-">> \o Pad2(d) \o <<"-">> \o Pad2(m)

\* dt.strftime('%Y-%m-%d') (line 73); %Y is not padded by the C library
Strftime(y, m, d) ==
    NatStr(y) \o <<"-">> \o Pad2(m) \o <<"-">> \o Pad2(d)

\* the loop of lines 70-78 from format i on
RECURSIVE TryFormats(_, _)
TryFormats(date_str, i) ==
    IF i > Len(date_formats) THEN date_str
    ELSE LET dt == Strptime(date_str, date_formats[i])
         IN  IF dt.ok THEN Strftime(dt.y, dt.m, dt.d)
             ELSE TryFormats(date_str, i + 1)

normalize_date(date_str) == TryFormats(date_str, 1)

-----------------------------------------------------------------------------
(* extract_merchant *)

\* the alternatives of the pattern of line 147, in order
phrases ==
    << <<"p","a","y","m","e","n","t"," ","t","o">>, <<"p","a","y","m","e","n","t"," ","f","r","o","m">>, <<"p","u","r","c","h","a","s","e"," ","a","t">>, <<"p","o","s"," ">>, <<"t","x","n","*">>,
       <<"d","e","b","i","t"," ","c","a","r","d"," ">>, <<"c","a","r","d"," ","p","u","r","c","h","a","s","e"," ">>, <<"a","c","h"," ">>, <<"d","i","r","e","c","t"," ","d","e","p","o","s","i","t"," ">> >>

\* \s
IsSpace(c) == c \in {" ", "\t"}

\* the first alternative that matches at the start of s, 0 when none does
PhraseAt(s) ==
    IF \E p \in DOMAIN phrases : IsPrefix(phrases[p], s)
    THEN CHOOSE p \in DOMAIN phrases :
             /\ IsPrefix(phrases[p], s)
             /\ \A q \in 1..(p - 1) : ~IsPrefix(phrases[q], s)
    ELSE 0

\* re.sub of line 147: leftmost non-overlapping matches, one pass
RECURSIVE RemovePhrases(_)
RemovePhrases(s) ==
    IF s = << >> THEN << >>
    ELSE IF PhraseAt(s) > 0
    THEN RemovePhrases(SubSeq(s, Len(phrases[PhraseAt(s)]) + 1, Len(s)))
    ELSE <<Head(s)>> \o RemovePhrases(Tail(s))

\* the length of the run of digits s starts with
RECURSIVE DigitRun(_)
DigitRun(s) ==
    IF s = << >> \/ ~IsDigit(s[1]) THEN 0 ELSE 1 + DigitRun(Tail(s))

\* re.sub(r'\d{6,}', '', s) of line 150
RECURSIVE RemoveLongNumbers(_)
RemoveLongNumbers(s) ==
    IF s = << >> THEN << >>
    ELSE LET n == DigitRun(s)
         IN  IF n >= 6 THEN RemoveLongNumbers(SubSeq(s, n + 1, Len(s)))
             ELSE IF n > 0
             THEN SubSeq(s, 1, n) \o RemoveLongNumbers(SubSeq(s, n + 1, Len(s)))
             ELSE <<Head(s)>> \o RemoveLongNumbers(Tail(s))

\* \d{2}/\d{2} matches at the start of s
DateAt(s) ==
    /\ Len(s) >= 5
    /\ IsDigit(s[1]) /\ IsDigit(s[2]) /\ s[3] = "/" /\ IsDigit(s[4]) /\ IsDigit(s[5])

\* re.sub(r'\d{2}/\d{2}', '', s) of line 151
RECURSIVE RemoveDates(_)
RemoveDates(s) ==
    IF s = << >> THEN << >>
    ELSE IF DateAt(s) THEN RemoveDates(SubSeq(s, 6, Len(s)))
    ELSE <<Head(s)>> \o RemoveDates(Tail(s))

\* the length of the run of whitespace s starts with
RECURSIVE SpaceRun(_)
SpaceRun(s) ==
    IF s = << >> \/ ~IsSpace(s[1]) THEN 0 ELSE 1 + SpaceRun(Tail(s))

\* re.sub(r'\s+', ' ', s)
RECURSIVE CollapseSpaces(_)
CollapseSpaces(s) ==
    IF s = << >> THEN << >>
    ELSE IF IsSpace(s[1])
    THEN <<" ">> \o CollapseSpaces(SubSeq(s, SpaceRun(s) + 1, Len(s)))
    ELSE <<Head(s)>> \o CollapseSpaces(Tail(s))

\* str.strip()
RECURSIVE Strip(_)
Strip(s) ==
    IF s = << >> THEN << >>
    ELSE IF IsSpace(s[1]) THEN Strip(Tail(s))
    ELSE IF IsSpace(s[Len(s)]) THEN Strip(SubSeq(s, 1, Len(s) - 1))
    ELSE s

\* line 152
CleanWhitespace(s) == Strip(CollapseSpaces(s))

\* str.split(): the maximal runs of non-whitespace
SplitWords(s) ==
    SelectSeq(Split([i \in DOMAIN s |-> IF IsSpace(s[i]) THEN " " ELSE s[i]], " "),
              LAMBDA w : w # << >>)

\* str.capitalize()
Capitalize(w) ==
    IF w = << >> THEN w ELSE <<Upper(w[1])>> \o StrLower(Tail(w))

\* ' '.join(ws)
RECURSIVE JoinWords(_)
JoinWords(ws) ==
    IF ws = << >> THEN << >>
    ELSE IF Len(ws) = 1 THEN ws[1]
    ELSE ws[1] \o <<" ">> \o JoinWords(Tail(ws))

\* lines 155-159
FinishMerchant(description, cleaned) ==
    LET words == SplitWords(cleaned)
    IN  IF words # << >>
        THEN JoinWords([i \in DOMAIN words |-> Capitalize(words[i])])
        ELSE description

extract_merchant(description) ==
    FinishMerchant(description,
        CleanWhitespace(RemoveDates(RemoveLongNumbers(
            RemovePhrases(StrLower(description))))))

-----------------------------------------------------------------------------
(* process_csv: the data frame *)

\* the most data rows a file holds
MaxRows == 2

\* header rows (raw names).  The names of a header stay distinct after line 95.
Headers ==
    { << >>,
      << <<"D","a","t","e"," ","D","e","s","c"," ","A","m","o","u","n","t">> >>,
      << <<"D","a","t","e">>, <<"D","e","s","c"," ","A","m","o","u","n","t">> >>,
      << <<"P","o","s","t","e","d">>, <<"M","e","m","o">> >>,
      << <<"D","a","t","e">>, <<"D","e","s","c","r","i","p","t","i","o","n">>, <<"A","m","o","u","n","t">> >>,
      << <<"P","o","s","t","e","d">>, <<"M","e","m","o">>, <<"V","a","l","u","e">> >>,
      << <<"S","u","m">>, <<"T","r","a","n","s"," ","D","a","t","e">>, <<"N","a","r","r","a","t","i","v","e">> >>,
      << <<"D","a","t","e">>, <<"D","e","s","c","r","i","p","t","i","o","n">>, <<"D","e","b","i","t">>, <<"C","r","e","d","i","t">> >>,
      << <<"D","a","t","e">>, <<"D","e","s","c","r","i","p","t","i","o","n">>, <<"A","m","o","u","n","t">>, <<"C","r","e","d","i","t">> >>,
      << <<"D","a","t","e">>, <<"D","e","s","c","r","i","p","t","i","o","n">>, <<"A","m","o","u","n","t">>, <<"D","e","b","i","t">>, <<"C","r","e","d","i","t">> >> }

\* the files a path may name: unreadable, or a header and a number of data
\* rows (an empty file has neither)
Files ==
    { [readable |-> FALSE, header |-> << >>, nrows |-> 0] } \cup
    { f \in [readable : {TRUE}, header : Headers, nrows : 0..MaxRows] :
          f.header = << >> => f.nrows = 0 }

Argvs ==
    { <<"process_csv.py">>, <<"process_csv.py", "in.csv">>,
      <<"process_csv.py", "in.csv", "extra">> }

\* cells read_csv turns into NaN (some of its default na_values)
NAValues == { << >>, <<"n","a","n">>, <<"N","a","N">>, <<"N","A">>, <<"N","/","A">>, <<"n","u","l","l">> }

\* pd.isna(cell)
IsNA(cell) == cell \in NAValues

\* str(cell): NaN prints as nan; a number prints as a literal of the same value
CellStr(cell) == IF IsNA(cell) THEN <<"n","a","n">> ELSE cell

\* the cells a column of each role may hold
DateCells   == { <<"0","1","/","0","2","/","2","0","2","3">> }
DescCells   == { <<"C","o","f","f","e","e"," ","S","h","o","p">>, <<"R","e","n","t">> }
AmountCells == { << >>, <<"-","5">>, <<"0">>, <<"$","1",",","0">>, <<"x">> }
DebitCells  == { << >>, <<"5">>, <<"0">>, <<"-","3">>, <<"x">> }
CreditCells == { << >>, <<"7">>, <<"x">> }

\* line 95: col.lower().replace(' ', '_')
NormalizeColumn(col) == ReplaceChar(StrLower(col), " ", "_")

\* `name in df.columns`
HasColumn(cols, name) == \E i \in DOMAIN cols : cols[i] = name

\* row[name]
Cell(cols, r, name) == r[CHOOSE i \in DOMAIN cols : cols[i] = name]

\* some key is a substring of col
ColumnMatches(col, keys) == \E k \in keys : Contains(col, k)

\* next(...) with the default taken only when no column matches
ResolveColumn_lazy(cols, keys, k) ==
    IF \E i \in DOMAIN cols : ColumnMatches(cols[i], keys)
    THEN [ok |-> TRUE,
          col |-> cols[CHOOSE i \in DOMAIN cols :
                          /\ ColumnMatches(cols[i], keys)
                          /\ \A j \in 1..(i - 1) : ~ColumnMatches(cols[j], keys)]]
    ELSE IF k > Len(cols) THEN [ok |-> FALSE, col |-> << >>]
    ELSE [ok |-> TRUE, col |-> cols[k]]

\* next((col for col in df.columns if <key> in col), df.columns[k-1]): the
\* default df.columns[k-1] is an argument, evaluated before next() is called,
\* and raises IndexError (ok = FALSE) when the header has fewer than k columns
ResolveColumn(cols, keys, k) ==
    IF k > Len(cols) THEN [ok |-> FALSE, col |-> << >>]
    ELSE IF \E i \in DOMAIN cols : ColumnMatches(cols[i], keys)
    THEN [ok |-> TRUE,
          col |-> cols[CHOOSE i \in DOMAIN cols :
                          /\ ColumnMatches(cols[i], keys)
                          /\ \A j \in 1..(i - 1) : ~ColumnMatches(cols[j], keys)]]
    ELSE [ok |-> TRUE, col |-> cols[k]]

DateKeys   == { <<"d","a","t","e">> }
DescKeys   == { <<"d","e","s","c">>, <<"n","a","r","r">> }
AmountKeys == { <<"a","m","o","u","n","t">>, <<"s","u","m">> }

\* float(str(cell).replace('$', '').replace(',', ''))
CellFloat(cell) == ParseFloat(CleanNumber(CellStr(cell)))

\* lines 113-116 with the credit column consulted first
DebitCreditOverride_creditfirst(cols, r, a) ==
    IF HasColumn(cols, <<"c","r","e","d","i","t">>) /\ ~IsNA(Cell(cols, r, <<"c","r","e","d","i","t">>))
    THEN CellFloat(Cell(cols, r, <<"c","r","e","d","i","t">>))
    ELSE IF HasColumn(cols, <<"d","e","b","i","t">>) /\ ~IsNA(Cell(cols, r, <<"d","e","b","i","t">>))
    THEN LET p == CellFloat(Cell(cols, r, <<"d","e","b","i","t">>))
         IN  [ok |-> p.ok, val |-> FNeg(p.val)]
    ELSE [ok |-> TRUE, val |-> a]

\* lines 113-116: a is the amount of line 110
DebitCreditOverride(cols, r, a) ==
    IF HasColumn(cols, <<"d","e","b","i","t">>) /\ ~IsNA(Cell(cols, r, <<"d","e","b","i","t">>))
    THEN LET p == CellFloat(Cell(cols, r, <<"d","e","b","i","t">>))
         IN  [ok |-> p.ok, val |-> FNeg(p.val)]
    ELSE IF HasColumn(cols, <<"c","r","e","d","i","t">>) /\ ~IsNA(Cell(cols, r, <<"c","r","e","d","i","t">>))
    THEN CellFloat(Cell(cols, r, <<"c","r","e","d","i","t">>))
    ELSE [ok |-> TRUE, val |-> a]

\* lines 110-116 with the amount column parsed only when neither debit nor
\* credit gives the amount
ResolveAmount_lazy(cols, amount_col, r) ==
    LET o == DebitCreditOverride(cols, r, NaN)
        overridden ==
            \/ HasColumn(cols, <<"d","e","b","i","t">>) /\ ~IsNA(Cell(cols, r, <<"d","e","b","i","t">>))
            \/ HasColumn(cols, <<"c","r","e","d","i","t">>) /\ ~IsNA(Cell(cols, r, <<"c","r","e","d","i","t">>))
    IN  IF overridden THEN o ELSE CellFloat(Cell(cols, r, amount_col))

\* lines 110-116: the signed amount of a row, or a ValueError (ok = FALSE)
ResolveAmount(cols, amount_col, r) ==
    LET p == CellFloat(Cell(cols, r, amount_col))
    IN  IF ~p.ok THEN p ELSE DebitCreditOverride(cols, r, p.val)

\* lines 119-127
MakeTransaction(date_str, description, a) ==
    [ date                |-> normalize_date(date_str),
      description         |-> description,
      amount              |-> FAbs(a),
      isExpense           |-> FLt0(a),
      category            |-> categorize_transaction(description, a),
      merchant            |-> extract_merchant(description),
      originalDescription |-> description ]

NoResult == [kind |-> "unset"]

\* {'error': str(e)}; the message is the exception's name here
ErrorResult(e) == [kind |-> "error", error |-> e]

ListResult(ts) == [kind |-> "list", items |-> ts]

NoRoles == [date_col |-> << >>, desc_col |-> << >>, amount_col |-> << >>]

\* the cells column i of a row may hold, by the role of the column
CellDomain(cols, r, i) ==
    IF i > Len(cols) THEN { << >> }
    ELSE IF cols[i] = <<"d","e","b","i","t">> THEN DebitCells
    ELSE IF cols[i] = <<"c","r","e","d","i","t">> THEN CreditCells
    ELSE IF cols[i] = r.amount_col THEN AmountCells
    ELSE IF cols[i] = r.date_col THEN DateCells
    ELSE IF cols[i] = r.desc_col THEN DescCells
    ELSE { << >> }

-----------------------------------------------------------------------------
(* the script: lines 161-170 and process_csv *)

\* the status the process ends with after line 170, were a failed result to
\* end it with status 1
ExitAfterPrint_failing(r) == IF r.kind = "error" THEN 1 ELSE 0

\* the script runs off its end after line 170
ExitAfterPrint(r) == 0

Init ==
    /\ argv \in Argvs
    /\ file \in Files
    /\ pc = "main"
    /\ df_columns = << >>
    /\ roles = NoRoles
    /\ idx = 0
    /\ row = << >>
    /\ amount = Num(0)
    /\ transactions = << >>
    /\ result = NoResult
    /\ stdout = << >>
    /\ exit_status = 0 - 1
    /\ calls = 0
    /\ fn = "none" /\ arg = << >> /\ step = 0 /\ acc = << >> /\ ret = << >>

\* lines 162-164
MainUsage ==
    /\ pc = "main"
    /\ Len(argv) < 2
    /\ stdout' = Append(stdout, ErrorResult("No file path provided"))
    /\ exit_status' = 1
    /\ pc' = "exited"
    /\ UNCHANGED <<argv, file, df_columns, roles, idx, row, amount,
                   transactions, result, calls>>
    /\ UNCHANGED fnVars

\* lines 166-167: process_csv(sys.argv[1]) is entered
MainCall ==
    /\ pc = "main"
    /\ Len(argv) >= 2
    /\ calls' = calls + 1
    /\ pc' = "read_csv"
    /\ UNCHANGED <<argv, file, df_columns, roles, idx, row, amount,
                   transactions, result, stdout, exit_status>>
    /\ UNCHANGED fnVars

\* lines 92-95; an exception of read_csv is caught at line 133
ReadCsv ==
    /\ pc = "read_csv"
    /\ IF ~file.readable
       THEN /\ result' = ErrorResult("FileNotFoundError")
            /\ pc' = "print"
            /\ UNCHANGED df_columns
       ELSE IF file.header = << >>
       THEN /\ result' = ErrorResult("EmptyDataError")
            /\ pc' = "print"
            /\ UNCHANGED df_columns
       ELSE /\ df_columns' = [i \in DOMAIN file.header |-> NormalizeColumn(file.header[i])]
            /\ pc' = "resolve"
            /\ UNCHANGED result
    /\ UNCHANGED <<argv, file, roles, idx, row, amount, transactions,
                   stdout, exit_status, calls>>
    /\ UNCHANGED fnVars

\* lines 98-103; an IndexError is caught at line 133
ResolveColumns ==
    /\ pc = "resolve"
    /\ LET d == ResolveColumn(df_columns, DateKeys, 1)
           s == ResolveColumn(df_columns, DescKeys, 2)
           a == ResolveColumn(df_columns, AmountKeys, 3)
       IN  IF d.ok /\ s.ok /\ a.ok
           THEN /\ roles' = [date_col |-> d.col, desc_col |-> s.col, amount_col |-> a.col]
                /\ pc' = "loop"
                /\ UNCHANGED result
           ELSE /\ result' = ErrorResult("IndexError")
                /\ pc' = "print"
                /\ UNCHANGED roles
    /\ UNCHANGED <<argv, file, df_columns, idx, row, amount, transactions,
                   stdout, exit_status, calls>>
    /\ UNCHANGED fnVars

\* lines 104-129 for the next row of the data frame; a ValueError of float()
\* is caught at line 133.  The row is drawn when iterrows yields it.  When
\* float() raises, process_csv returns and its locals are gone: row is kept
\* as the row that raised, amount and transactions as they were before it.
IterRow ==
    /\ pc = "loop"
    /\ idx < file.nrows
    /\ \E c1 \in CellDomain(df_columns, roles, 1),
          c2 \in CellDomain(df_columns, roles, 2),
          c3 \in CellDomain(df_columns, roles, 3),
          c4 \in CellDomain(df_columns, roles, 4),
          c5 \in CellDomain(df_columns, roles, 5) :
          LET r == SubSeq(<<c1, c2, c3, c4, c5>>, 1, Len(df_columns))
              a == ResolveAmount(df_columns, roles.amount_col, r)
          IN  /\ row' = r
              /\ IF a.ok
                 THEN /\ amount' = a.val
                      /\ transactions' =
                            Append(transactions,
                                   MakeTransaction(
                                       CellStr(Cell(df_columns, r, roles.date_col)),
                                       CellStr(Cell(df_columns, r, roles.desc_col)),
                                       a.val))
                      /\ idx' = idx + 1
                      /\ UNCHANGED <<result, pc>>
                 ELSE /\ result' = ErrorResult("ValueError")
                      /\ pc' = "print"
                      /\ UNCHANGED <<amount, transactions, idx>>
    /\ UNCHANGED <<argv, file, df_columns, roles, stdout, exit_status, calls>>
    /\ UNCHANGED fnVars

\* line 131
ReturnTransactions ==
    /\ pc = "loop"
    /\ idx = file.nrows
    /\ result' = ListResult(transactions)
    /\ pc' = "print"
    /\ UNCHANGED <<argv, file, df_columns, roles, idx, row, amount,
                   transactions, stdout, exit_status, calls>>
    /\ UNCHANGED fnVars

\* line 170 and the end of the script
MainPrint ==
    /\ pc = "print"
    /\ stdout' = Append(stdout, result)
    /\ exit_status' = ExitAfterPrint(result)
    /\ pc' = "exited"
    /\ UNCHANGED <<argv, file, df_columns, roles, idx, row, amount,
                   transactions, result, calls>>
    /\ UNCHANGED fnVars

Next ==
    \/ MainUsage
    \/ MainCall
    \/ ReadCsv
    \/ ResolveColumns
    \/ IterRow
    \/ ReturnTransactions
    \/ MainPrint

Spec == Init /\ [][Next]_vars

-----------------------------------------------------------------------------
(* the pure functions, each applied to inputs drawn from a bounded set *)

\* the script is not running in these specifications
IdlePipe ==
    /\ argv = << >>
    /\ file = [readable |-> FALSE, header |-> << >>, nrows |-> 0]
    /\ df_columns = << >>
    /\ roles = NoRoles
    /\ idx = 0
    /\ row = << >>
    /\ amount = Num(0)
    /\ transactions = << >>
    /\ result = NoResult
    /\ stdout = << >>
    /\ exit_status = 0 - 1
    /\ calls = 0

UnchangedPipe ==
    UNCHANGED <<argv, file, df_columns, roles, idx, row, amount, transactions,
                result, stdout, exit_status, calls>>

\* every concatenation of at most n of the parts
RECURSIVE Concats(_, _)
Concats(parts, n) ==
    IF n = 0 THEN { << >> }
    ELSE Concats(parts, n - 1) \cup
         { p \o q : p \in parts, q \in Concats(parts, n - 1) }

(* normalize_date *)

Years  == {1968, 1969, 2024, 2068, 2069}
Months == {1, 2, 12}
Days   == {1, 12, 13, 29, 31}

Dates ==
    { dt \in [y : Years, m : Months, d : Days] : ValidDate(dt.y, dt.m, dt.d) }

WrittenFormats ==
    { Fmt_mdY_slash, Fmt_Ymd_dash, Fmt_dmY_slash, Fmt_mdY_dash,
      Fmt_dmY_dash, Fmt_mdy_slash, Fmt_dmy_slash, Fmt_Ymd_slash }

\* a directive of a date written with zero padding
WriteField(dir, dt) ==
    IF dir = "m" THEN Pad2(dt.m)
    ELSE IF dir = "d" THEN Pad2(dt.d)
    ELSE IF dir = "Y" THEN NatStr(dt.y)
    ELSE Pad2(dt.y % 100)

\* the date dt written in the format fmt
WriteDate(dt, fmt) ==
    WriteField(fmt.dirs[1], dt) \o <<fmt.sep>> \o
    WriteField(fmt.dirs[2], dt) \o <<fmt.sep>> \o
    WriteField(fmt.dirs[3], dt)

\* strings that are not a date written in a format
OtherDateStrings ==
    { << >>, <<"n","a","n">>, <<"J","a","n"," ","5">>, <<"1","/","2","/","2","0","2","3">>, <<"2","0","2","3","/","1","/","5">>, <<"0","2","/","2","9","/","2","0","2","3">>,
      <<"2","9","/","0","2","/","2","0","2","3">>, <<"1","3","/","1","3","/","2","0","2","3">>, <<"2","0","2","3","-","0","2","-","3","0">>, <<"0","1","/","0","2","/","2","0","2","3"," ">>,
      <<"0","1","/","0","2","/","2","0","2","3","4">>, <<"0","1","-","0","2","/","2","0","2","3">>, <<" ","5","/","0","1","/","2","0","2","3">>, <<"0","0","/","0","1","/","2","0","2","3">>,
      <<"0","1","/","0","2","/","0","0","0","0">> }

DateInputs ==
    { WriteDate(dt, f) : dt \in Dates, f \in WrittenFormats } \cup OtherDateStrings

InitDate ==
    /\ IdlePipe
    /\ pc = "apply"
    /\ fn = "normalize_date"
    /\ arg \in DateInputs
    /\ step = 1
    /\ acc = << >>
    /\ ret = << >>

\* lines 70-75: one turn of the loop
TryFormat ==
    /\ pc = "apply" /\ fn = "normalize_date"
    /\ step <= Len(date_formats)
    /\ LET dt == Strptime(arg, date_formats[step])
       IN  IF dt.ok
           THEN /\ ret' = Strftime(dt.y, dt.m, dt.d)
                /\ pc' = "returned"
                /\ UNCHANGED step
           ELSE /\ step' = step + 1
                /\ UNCHANGED <<ret, pc>>
    /\ UNCHANGED <<fn, arg, acc>>
    /\ UnchangedPipe

\* line 78
ReturnOriginal ==
    /\ pc = "apply" /\ fn = "normalize_date"
    /\ step > Len(date_formats)
    /\ ret' = arg
    /\ pc' = "returned"
    /\ UNCHANGED <<fn, arg, step, acc>>
    /\ UnchangedPipe

NextDate == TryFormat \/ ReturnOriginal

SpecDate == InitDate /\ [][NextDate]_vars

(* categorize_transaction *)

\* the most words of a description
MaxWords == 2

Words ==
    { <<"C","o","f","f","e","e"," ">>, <<"U","B","E","R"," ">>, <<"f","o","o","d","s","t","u","f","f"," ">>, <<"R","e","n","t"," ">>, <<"z","z","z"," ">>,
      <<"S","h","o","p"," ">>, <<"n","e","t","f","l","i","x"," ">>, <<"G","a","s">> }

CatAmounts == { Num(0 - 5), Num(0), Num(5), NaN, Inf(0 - 1), Inf(1) }

InitCategorize ==
    /\ IdlePipe
    /\ pc = "apply"
    /\ fn = "categorize_transaction"
    /\ arg \in [description : Concats(Words, MaxWords), amount : CatAmounts]
    /\ step = 0
    /\ acc = << >>
    /\ ret = << >>

\* lines 26-52
Categorize ==
    /\ pc = "apply" /\ fn = "categorize_transaction"
    /\ ret' = categorize_transaction(arg.description, arg.amount)
    /\ pc' = "returned"
    /\ UNCHANGED <<fn, arg, step, acc>>
    /\ UnchangedPipe

NextCategorize == Categorize

SpecCategorize == InitCategorize /\ [][NextCategorize]_vars

(* extract_merchant *)

\* the most fragments of a description
MaxFragments == 3

Fragments ==
    { <<"P","O","S"," ">>, <<"P","u","r","c","h","a","s","e"," ","A","t"," ">>, <<"S","t","a","r","b","u","c","k","s">>, <<" ">>, <<"\t">>, <<"1","2","3","4","5","6","7","8","9">>,
      <<"1","2","3","4","5">>, <<"6","7","8","9","0">>, <<"4","5","/","6","7">>, <<"0","4","/","1","2">>, <<"/">>, <<"p","a","y">>,
      <<"m","e","n","t"," ","t","o"," ">>, <<"a","c","h">> }

MerchantInputs ==
    Concats(Fragments, MaxFragments) \cup
    { <<"P","O","S"," ","P","u","r","c","h","a","s","e"," ","A","t"," ","S","t","a","r","b","u","c","k","s"," ","1","2","3","4","5","6","7","8","9"," ","0","4","/","1","2">> }

InitMerchant ==
    /\ IdlePipe
    /\ pc = "apply"
    /\ fn = "extract_merchant"
    /\ arg \in MerchantInputs
    /\ step = 0
    /\ acc = << >>
    /\ ret = << >>

\* line 147
StepPhrases ==
    /\ pc = "apply" /\ fn = "extract_merchant" /\ step = 0
    /\ acc' = RemovePhrases(StrLower(arg))
    /\ step' = 1
    /\ UNCHANGED <<pc, fn, arg, ret>>
    /\ UnchangedPipe

\* line 150
StepLongNumbers ==
    /\ pc = "apply" /\ fn = "extract_merchant" /\ step = 1
    /\ acc' = RemoveLongNumbers(acc)
    /\ step' = 2
    /\ UNCHANGED <<pc, fn, arg, ret>>
    /\ UnchangedPipe

\* line 151
StepDates ==
    /\ pc = "apply" /\ fn = "extract_merchant" /\ step = 2
    /\ acc' = RemoveDates(acc)
    /\ step' = 3
    /\ UNCHANGED <<pc, fn, arg, ret>>
    /\ UnchangedPipe

\* line 152
StepWhitespace ==
    /\ pc = "apply" /\ fn = "extract_merchant" /\ step = 3
    /\ acc' = CleanWhitespace(acc)
    /\ step' = 4
    /\ UNCHANGED <<pc, fn, arg, ret>>
    /\ UnchangedPipe

\* lines 155-159
StepReturn ==
    /\ pc = "apply" /\ fn = "extract_merchant" /\ step = 4
    /\ ret' = FinishMerchant(arg, acc)
    /\ pc' = "returned"
    /\ UNCHANGED <<fn, arg, step, acc>>
    /\ UnchangedPipe

NextMerchant ==
    \/ StepPhrases
    \/ StepLongNumbers
    \/ StepDates
    \/ StepWhitespace
    \/ StepReturn

SpecMerchant == InitMerchant /\ [][NextMerchant]_vars

-----------------------------------------------------------------------------
(* Properties of process_csv, stated on the row the loop body last completed:
   every transaction of the list is appended by one turn of the loop and
   never changed afterwards (TransactionsOnlyGrow). *)

\* the loop body has completed for row, and amount is its signed amount
RowDone == pc \in {"loop", "print", "exited"} /\ result.kind # "error" /\ idx >= 1

LastTransaction == transactions[Len(transactions)]

\* process_csv was entered and has returned
Processed == pc \in {"print", "exited"} /\ calls >= 1

TransactionsOnlyGrow ==
    [][/\ Len(transactions') >= Len(transactions)
       /\ SubSeq(transactions', 1, Len(transactions)) = transactions]_vars

\* C1: every output amount is non-negative and equals the absolute value of
\* the row's signed amount, and isExpense is true exactly when the signed
\* amount is negative, whatever the cells hold (an empty amount cell too).
C1_AmountIsMagnitude ==
    RowDone =>
        /\ FGe0(LastTransaction.amount)
        /\ FEq(LastTransaction.amount, FAbs(amount))
        /\ LastTransaction.isExpense = FLt0(amount)

\* the three conjuncts of C1 for every row whose signed amount is not NaN
AmountIsMagnitudeUnlessNaN ==
    (RowDone /\ amount.k # "nan") =>
        /\ FGe0(LastTransaction.amount)
        /\ FEq(LastTransaction.amount, FAbs(amount))
        /\ LastTransaction.isExpense = FLt0(amount)

\* C2: category is "income" exactly when the row's signed amount is strictly
\* positive, and then isExpense is false; a row whose amount is zero,
\* negative or NaN is never income, whatever its description.
C2_IncomeIffPositive ==
    RowDone =>
        /\ (LastTransaction.category = "income") = FGt0(amount)
        /\ FGt0(amount) => ~LastTransaction.isExpense

C2_Witness ==
    /\ RowDone
    /\ LastTransaction.category = "income"
    /\ amount = Num(10)
    /\ ~LastTransaction.isExpense

\* the row has a debit cell and a credit cell, both non-empty
BothPresent ==
    /\ HasColumn(df_columns, <<"d","e","b","i","t">>)
    /\ HasColumn(df_columns, <<"c","r","e","d","i","t">>)
    /\ ~IsNA(Cell(df_columns, row, <<"d","e","b","i","t">>))
    /\ ~IsNA(Cell(df_columns, row, <<"c","r","e","d","i","t">>))

DebitValue == CellFloat(Cell(df_columns, row, <<"d","e","b","i","t">>)).val

\* C3 as stated: with both cells non-empty the output amount is the magnitude
\* of the debit cell and isExpense is true.
C3_DebitWinsAlwaysExpense ==
    RowDone /\ BothPresent =>
        /\ FEq(LastTransaction.amount, FAbs(DebitValue))
        /\ LastTransaction.isExpense

\* C3 as amended: with both cells non-empty the signed amount is the negated
\* debit value whatever the credit cell holds, the output amount is its
\* magnitude, and isExpense is true exactly when the debit value is positive.
C3_DebitWins ==
    RowDone /\ BothPresent =>
        /\ amount = FNeg(DebitValue)
        /\ FEq(LastTransaction.amount, FAbs(DebitValue))
        /\ LastTransaction.isExpense = FGt0(DebitValue)

C3_Witness ==
    /\ RowDone /\ BothPresent
    /\ Cell(df_columns, row, <<"d","e","b","i","t">>) = <<"5">>
    /\ Cell(df_columns, row, <<"c","r","e","d","i","t">>) = <<"7">>
    /\ LastTransaction.amount = Num(5)
    /\ LastTransaction.isExpense

\* a cell the loop body parses for this row is not a number
RowFails ==
    \/ ~CellFloat(Cell(df_columns, row, roles.amount_col)).ok
    \/ /\ HasColumn(df_columns, <<"d","e","b","i","t">>)
       /\ ~IsNA(Cell(df_columns, row, <<"d","e","b","i","t">>))
       /\ ~CellFloat(Cell(df_columns, row, <<"d","e","b","i","t">>)).ok
    \/ /\ HasColumn(df_columns, <<"c","r","e","d","i","t">>)
       /\ ~IsNA(Cell(df_columns, row, <<"c","r","e","d","i","t">>))
       /\ ~(HasColumn(df_columns, <<"d","e","b","i","t">>) /\ ~IsNA(Cell(df_columns, row, <<"d","e","b","i","t">>)))
       /\ ~CellFloat(Cell(df_columns, row, <<"c","r","e","d","i","t">>)).ok

\* C4: the result is a list with one transaction per row or one error
\* object; a row whose amount cell, or consulted debit/credit cell, is not a
\* number makes the result the error object however many rows came before,
\* also when the amount cell is bad and the debit or credit cell is usable.
C4_AllOrNothing ==
    /\ Processed => result.kind \in {"list", "error"}
    /\ ~Processed => result.kind = "unset"
    /\ result.kind = "list" =>
          /\ Len(result.items) = file.nrows
          /\ result.items = transactions
    /\ (row # << >> /\ RowFails) => result.kind = "error"
    /\ (pc = "exited" /\ Len(argv) >= 2) => stdout = <<result>>

C4_Witness ==
    /\ pc = "exited"
    /\ result.kind = "error"
    /\ Len(transactions) >= 1
    /\ HasColumn(df_columns, <<"d","e","b","i","t">>)
    /\ Cell(df_columns, row, <<"d","e","b","i","t">>) = <<"5">>
    /\ Cell(df_columns, row, roles.amount_col) = <<"x">>
    /\ stdout = <<ErrorResult("ValueError")>>

\* C5: a header of fewer than 3 columns gives an error result, whatever the
\* names (also when every role resolves by name) and however many rows.
C5_ShortHeaderFails ==
    (Processed /\ file.readable /\ Len(file.header) < 3)
        => result.kind = "error"

C5_Witness ==
    /\ pc = "exited"
    /\ file.header = << <<"D","a","t","e">>, <<"D","e","s","c"," ","A","m","o","u","n","t">> >>
    /\ ResolveColumn_lazy(df_columns, DateKeys, 1).ok
    /\ ResolveColumn_lazy(df_columns, DescKeys, 2).ok
    /\ ResolveColumn_lazy(df_columns, AmountKeys, 3).ok
    /\ file.nrows >= 1
    /\ result = ErrorResult("IndexError")

-----------------------------------------------------------------------------
(* Properties of normalize_date (SpecDate) *)

Returned(f) == pc = "returned" /\ fn = f

\* a calendar date as YYYY-MM-DD
IsoDate(y, m, d) == NatStr(y) \o <<"-">> \o Pad2(m) \o <<"-">> \o Pad2(d)

NoFormatAccepts(s) == \A f \in WrittenFormats : ~Strptime(s, f).ok

\* C6 as stated: a valid date written in any of the 8 formats comes back as
\* that date in YYYY-MM-DD; a string no format accepts comes back unchanged.
C6_RoundTripEveryFormat ==
    Returned("normalize_date") =>
        /\ \A dt \in Dates, f \in WrittenFormats :
              arg = WriteDate(dt, f) => ret = IsoDate(dt.y, dt.m, dt.d)
        /\ NoFormatAccepts(arg) => ret = arg

\* C6 as amended: the date comes back unless the format is day-first and
\* the day is at most 12, when it comes back with day and month exchanged;
\* for the two-digit-year formats this covers the years 1969 to 2068.
C6_RoundTripUnlessAmbiguous ==
    Returned("normalize_date") =>
        /\ \A dt \in Dates, f \in WrittenFormats :
              (/\ arg = WriteDate(dt, f)
               /\ (f.dirs[3] = "y" => (dt.y >= 1969 /\ dt.y <= 2068)))
              => IF f.dirs[1] = "d" /\ dt.d <= 12
                 THEN ret = IsoDate(dt.y, dt.d, dt.m)
                 ELSE ret = IsoDate(dt.y, dt.m, dt.d)
        /\ NoFormatAccepts(arg) => ret = arg

C6_Witness ==
    /\ Returned("normalize_date")
    /\ arg = WriteDate([y |-> 2024, m |-> 2, d |-> 1], Fmt_dmY_slash)
    /\ ret = <<"2","0","2","4","-","0","1","-","0","2">>

\* the formats as the claim lists them
C7_DeclaredOrder ==
    << Fmt_mdY_slash, Fmt_Ymd_dash, Fmt_dmY_slash, Fmt_mdY_dash,
       Fmt_dmY_dash, Fmt_mdy_slash, Fmt_dmy_slash, Fmt_Ymd_slash >>

\* C7: the result is the parse under the first format of the declared order
\* that accepts the string, so a string valid month-first and day-first is
\* read month-first, and day-first only when month-first is not a date.
C7_FirstFormatWins ==
    Returned("normalize_date") =>
        /\ \A i \in DOMAIN C7_DeclaredOrder :
              LET dt == Strptime(arg, C7_DeclaredOrder[i])
              IN  (dt.ok /\ \A j \in 1..(i - 1) : ~Strptime(arg, C7_DeclaredOrder[j]).ok)
                  => ret = IsoDate(dt.y, dt.m, dt.d)
        /\ \A p \in { <<Fmt_mdY_slash, Fmt_dmY_slash>>, <<Fmt_mdY_dash, Fmt_dmY_dash>>,
                      <<Fmt_mdy_slash, Fmt_dmy_slash>> } :
              LET mf == Strptime(arg, p[1])
                  df == Strptime(arg, p[2])
              IN  /\ mf.ok => ret = IsoDate(mf.y, mf.m, mf.d)
                  /\ (df.ok /\ ret = IsoDate(df.y, df.m, df.d) /\ df # mf) => ~mf.ok

C7_Witness ==
    /\ Returned("normalize_date")
    /\ arg = <<"0","1","/","0","2","/","2","0","2","4">>
    /\ Strptime(arg, Fmt_mdY_slash).ok
    /\ Strptime(arg, Fmt_dmY_slash).ok
    /\ ret = <<"2","0","2","4","-","0","1","-","0","2">>

-----------------------------------------------------------------------------
(* Properties of categorize_transaction (SpecCategorize) *)

\* the categories as the claim lists them
C8_DeclaredOrder ==
    << "groceries", "dining", "transportation", "utilities", "entertainment",
       "shopping", "housing" >>

\* some keyword of the named category occurs in the lowercased description
C8_Hit(description, name) ==
    \E i \in DOMAIN categories :
        /\ categories[i].name = name
        /\ KeywordHit(StrLower(description), categories[i].keywords)

\* C8: for an amount that is not positive the result is the first category
\* of the declared order with a keyword in the lowercased description, and
\* "uncategorized" when no category has one.
C8_FirstCategoryWins ==
    (Returned("categorize_transaction") /\ ~FGt0(arg.amount)) =>
        /\ \A i \in DOMAIN C8_DeclaredOrder :
              (ret = C8_DeclaredOrder[i]) =
                  (/\ C8_Hit(arg.description, C8_DeclaredOrder[i])
                   /\ \A j \in 1..(i - 1) : ~C8_Hit(arg.description, C8_DeclaredOrder[j]))
        /\ (ret = "uncategorized") =
              (\A i \in DOMAIN C8_DeclaredOrder : ~C8_Hit(arg.description, C8_DeclaredOrder[i]))

C8_Witness ==
    /\ Returned("categorize_transaction")
    /\ arg.description = <<"U","B","E","R"," ","C","o","f","f","e","e"," ">>
    /\ arg.amount = Num(0 - 5)
    /\ ret = "dining"

-----------------------------------------------------------------------------
(* Properties of extract_merchant (SpecMerchant) *)

HasLongNumber(s) == \E i \in 0..(Len(s) - 6) : AllDigits(SubSeq(s, i + 1, i + 6))

HasDate(s) == \E i \in 0..(Len(s) - 5) : DateAt(SubSeq(s, i + 1, Len(s)))

HasPhrase(s) == \E p \in DOMAIN phrases : Contains(StrLower(s), phrases[p])

\* C9: when cleaning leaves a word, the merchant has no run of 6 or more
\* digits, no DD/DD substring and no boilerplate phrase.
C9_MerchantIsClean ==
    (Returned("extract_merchant") /\ SplitWords(acc) # << >>) =>
        /\ ~HasLongNumber(ret)
        /\ ~HasDate(ret)
        /\ ~HasPhrase(ret)

=============================================================================
